---- MODULE Spec2Model ----
(***************************************************************************)
(* Morph Fast Apply adapter (src/services/morph/MorphService.ts) and the   *)
(* controller handler updateApiConfigurationProto.                         *)
(*                                                                         *)
(* Text is a sequence of tokens (each token a literal piece of a string);  *)
(* concatenation is \o, String.includes is a contiguous-subsequence test,  *)
(* String.trim strips whitespace tokens from both ends.                    *)
(* A JavaScript value that may be absent is a record [kind, text] with     *)
(* kind "undefined", "null" or "string".                                   *)
(***************************************************************************)
EXTENDS Integers, Sequences, FiniteSets, TLC

VARIABLES
    service,    \* the MorphService instance: its fields config and client
    pc,         \* per call: "idle", "awaiting" (suspended at the await), "done"
    op,         \* per call: "none", "applyEdit" or "validateApiKey"
    request,    \* per call: the argument of applyEdit (<<>> when there is none)
    wire,       \* per call: the requests handed to client.chat.completions.create
    warnings,   \* per call: number of console.warn lines emitted
    settled,    \* per call: how the transport settled the promise (<<>> or <<t>>)
    outcome,    \* per call: what the call gave its caller (<<>> or <<o>>)
    cache,      \* controller.cacheService: the stored ApiConfiguration
    taskApi,    \* controller.task.api (<<>> when there is no task)
    posted,     \* number of postStateToWebview calls made
    upc,        \* per update call: "idle", "awaitMode", "awaitPost", "done", "failed"
    ucfg        \* per update call: the converted appApiConfiguration (<<>> if none)

morphVars == <<service, pc, op, request, wire, warnings, settled, outcome>>
ctlVars == <<cache, taskApi, posted, upc, ucfg>>
vars == <<service, pc, op, request, wire, warnings, settled, outcome,
          cache, taskApi, posted, upc, ucfg>>

(***************************************************************************)
(* Bounds                                                                  *)
(***************************************************************************)
MaxChoices == 2      \* longest list of choices in a response
MaxCalls == 2        \* concurrent calls on one MorphService instance
MaxUpdates == 2      \* overlapping updateApiConfigurationProto calls

(***************************************************************************)
(* constants.ts                                                            *)
(***************************************************************************)
DEFAULT_MORPH_TIMEOUT_MS == 30000
MORPH_FAST_APPLY_MODEL == "morph-v3-large"

(***************************************************************************)
(* JavaScript values                                                       *)
(***************************************************************************)
Undefined == [kind |-> "undefined", text |-> <<>>]
Null == [kind |-> "null", text |-> <<>>]
Str(s) == [kind |-> "string", text |-> s]
IsNullish(v) == v.kind \in {"undefined", "null"}

\* Template-literal interpolation ${v}.
ToText(v) ==
    CASE v.kind = "undefined" -> <<"undefined">>
      [] v.kind = "null" -> <<"null">>
      [] OTHER -> v.text

WhiteSpace == {" ", "\n", "\t"}

\* String.prototype.trim
RECURSIVE TrimStart(_)
TrimStart(s) ==
    IF s # <<>> /\ Head(s) \in WhiteSpace THEN TrimStart(Tail(s)) ELSE s

RECURSIVE TrimEnd(_)
TrimEnd(s) ==
    IF s # <<>> /\ s[Len(s)] \in WhiteSpace
    THEN TrimEnd(SubSeq(s, 1, Len(s) - 1))
    ELSE s

Trim(s) == TrimEnd(TrimStart(s))

\* String.prototype.includes
Includes(s, sub) ==
    \E i \in 1..(Len(s) - Len(sub) + 1) : SubSeq(s, i, i + Len(sub) - 1) = sub

\* !v?.trim() : true for undefined, null, and strings that trim to "".
Blank(v) == IsNullish(v) \/ Trim(v.text) = <<>>

(***************************************************************************)
(* MorphError and thrown values                                            *)
(***************************************************************************)
\* A thrown value: isError says whether it is an instance of Error.
Thrown(isErr, name, msg) == [isError |-> isErr, name |-> name, message |-> msg]

\* new MorphError(message, cause): cause is <<>> (undefined) or <<thrown value>>.
MorphError(msg, cause) ==
    [isError |-> TRUE, name |-> "MorphError", message |-> msg, cause |-> cause]

IsMorphError(e) == e.name = "MorphError"

MsgInstructions == <<"Instructions are required and cannot be empty">>
MsgOriginal == <<"Original content is required (can be empty string for new files)">>
MsgCodeEdit == <<"Code edit is required and cannot be empty">>
MsgEmpty == <<"Morph API returned empty response">>
MsgFailedPrefix == <<"Morph API request failed: ">>
MsgUnknown == <<"Unknown error">>

Outcome_Return(v) == [kind |-> "return", value |-> v]
Outcome_Throw(e) == [kind |-> "throw", value |-> e]

(***************************************************************************)
(* MorphService: constructor                                               *)
(***************************************************************************)
DEFAULT_BASE_URL == "https://api.morphllm.com/v1"

\* MorphServiceConfig values handed to the constructor; timeout is optional.
ConfigInputs ==
    { [apiKey |-> "sk-morph-1", baseUrl |-> DEFAULT_BASE_URL, timeout |-> <<>>],
      [apiKey |-> "sk-morph-2", baseUrl |-> "https://proxy.example/v1", timeout |-> <<5000>>],
      [apiKey |-> "sk-morph-1", baseUrl |-> DEFAULT_BASE_URL, timeout |-> <<0>>] }

\* config.timeout ?? DEFAULT_MORPH_TIMEOUT_MS
TimeoutOrDefault(cfg) ==
    IF cfg.timeout = <<>> THEN DEFAULT_MORPH_TIMEOUT_MS ELSE cfg.timeout[1]

MorphServiceNew(cfg) ==
    [ config |-> [apiKey |-> cfg.apiKey, baseUrl |-> cfg.baseUrl,
                  timeout |-> TimeoutOrDefault(cfg)],
      client |-> [apiKey |-> cfg.apiKey, baseURL |-> cfg.baseUrl,
                  timeout |-> TimeoutOrDefault(cfg)] ]

(***************************************************************************)
(* MorphService.validateEditRequest                                        *)
(***************************************************************************)
EC == "... existing code ..."
MarkerSlash == <<"//", " ", EC>>                   \* "// ... existing code ..."
MarkerHash == <<"#", " ", EC>>                     \* "# ... existing code ..."
MarkerHtml == <<"<!--", " ", EC, " ", "-->">>      \* "<!-- ... existing code ... -->"

HasLazyMarker(text) ==
    \/ Includes(text, MarkerSlash)
    \/ Includes(text, MarkerHash)
    \/ Includes(text, MarkerHtml)

\* The warning branch: no marker found and the file is not empty.
WarnsAlways(req) == ~HasLazyMarker(req.codeEdit.text)
ShouldWarn(req) ==
    /\ ~HasLazyMarker(req.codeEdit.text)
    /\ Len(req.originalContent.text) > 0

\* Result of the validation: thrown is <<>> or <<the MorphError thrown>>,
\* warn says whether console.warn was called.
validateEditRequestNoTrim(req) ==
    IF IsNullish(req.instructions) \/ req.instructions.text = <<>>
    THEN [thrown |-> <<MorphError(MsgInstructions, <<>>)>>, warn |-> FALSE]
    ELSE IF IsNullish(req.originalContent)
    THEN [thrown |-> <<MorphError(MsgOriginal, <<>>)>>, warn |-> FALSE]
    ELSE IF IsNullish(req.codeEdit) \/ req.codeEdit.text = <<>>
    THEN [thrown |-> <<MorphError(MsgCodeEdit, <<>>)>>, warn |-> FALSE]
    ELSE [thrown |-> <<>>, warn |-> ShouldWarn(req)]

validateEditRequest(req) ==
    IF Blank(req.instructions)
    THEN [thrown |-> <<MorphError(MsgInstructions, <<>>)>>, warn |-> FALSE]
    ELSE IF IsNullish(req.originalContent)
    THEN [thrown |-> <<MorphError(MsgOriginal, <<>>)>>, warn |-> FALSE]
    ELSE IF Blank(req.codeEdit)
    THEN [thrown |-> <<MorphError(MsgCodeEdit, <<>>)>>, warn |-> FALSE]
    ELSE [thrown |-> <<>>, warn |-> ShouldWarn(req)]

(***************************************************************************)
(* MorphService.formatMorphPrompt                                          *)
(***************************************************************************)
formatMorphPromptTrimmed(req) ==
    <<"<instruction>">> \o Trim(ToText(req.instructions)) \o <<"</instruction>", "\n">>
    \o <<"<code>">> \o ToText(req.originalContent) \o <<"</code>", "\n">>
    \o <<"<update>">> \o Trim(ToText(req.codeEdit)) \o <<"</update>">>

formatMorphPrompt(req) ==
    <<"<instruction>">> \o ToText(req.instructions) \o <<"</instruction>", "\n">>
    \o <<"<code>">> \o ToText(req.originalContent) \o <<"</code>", "\n">>
    \o <<"<update>">> \o ToText(req.codeEdit) \o <<"</update>">>

(***************************************************************************)
(* The call to this.client.chat.completions.create                         *)
(***************************************************************************)
\* The request as it leaves the client: the client's settings and the body.
Create(client, params) ==
    [baseURL |-> client.baseURL, apiKey |-> client.apiKey,
     timeout |-> client.timeout, params |-> params]

ApplyEditParamsStreaming(morphPrompt) ==
    [model |-> MORPH_FAST_APPLY_MODEL,
     messages |-> <<[role |-> "user", content |-> morphPrompt]>>,
     max_tokens |-> <<>>,
     stream |-> TRUE]

ApplyEditParams(morphPrompt) ==
    [model |-> MORPH_FAST_APPLY_MODEL,
     messages |-> <<[role |-> "user", content |-> morphPrompt]>>,
     max_tokens |-> <<>>,
     stream |-> FALSE]

TestPrompt ==
    <<"<instruction>", "test", "</instruction>", "\n", "<code>", "test", "</code>",
      "\n", "<update>", "test", "</update>">>

ValidateApiKeyParams ==
    [model |-> MORPH_FAST_APPLY_MODEL,
     messages |-> <<[role |-> "user", content |-> TestPrompt]>>,
     max_tokens |-> <<1>>,
     stream |-> FALSE]

(***************************************************************************)
(* How the transport settles the promise                                   *)
(***************************************************************************)
Fulfilled(body) == [state |-> "fulfilled", value |-> body]
Rejected(e) == [state |-> "rejected", value |-> e]

\* A choice of the response: message may be missing, content may be
\* undefined, null or a string.
Choice(hasMessage, content) == [hasMessage |-> hasMessage, content |-> content]

ContentValues ==
    { Undefined, Null, Str(<<>>), Str(<<"X">>), Str(<<" ", "Y", "\n">>) }

Choices == { Choice(FALSE, Undefined) } \cup { Choice(TRUE, v) : v \in ContentValues }

ChoiceLists == UNION { [1..n -> Choices] : n \in 0..MaxChoices }

\* A parsed body: hasChoices is FALSE for a body without a choices array.
Body(hasChoices, choices) == [hasChoices |-> hasChoices, choices |-> choices]
MalformedBody == Body(FALSE, <<>>)

Bodies == { Body(TRUE, cs) : cs \in ChoiceLists } \cup { MalformedBody }

\* Values the transport can throw: instances of Error and values that are not.
ErrConnection == Thrown(TRUE, "APIConnectionError", <<"Connection error.">>)
ErrTimeout == Thrown(TRUE, "APIConnectionTimeoutError", <<"Request timed out.">>)
ErrAuth == Thrown(TRUE, "AuthenticationError", <<"401 Incorrect API key">>)
ErrRateLimit == Thrown(TRUE, "RateLimitError", <<"429 Rate limit exceeded">>)
ErrParse == Thrown(TRUE, "SyntaxError", <<"Unexpected token < in JSON">>)
NonErrString == Thrown(FALSE, "string", <<"socket hang up">>)
NonErrObject == Thrown(FALSE, "object", <<"aborted">>)

ErrorInstances == { ErrConnection, ErrTimeout, ErrAuth, ErrRateLimit, ErrParse }
ThrownValues == ErrorInstances \cup { NonErrString, NonErrObject }

Settlements == { Fulfilled(b) : b \in Bodies } \cup { Rejected(e) : e \in ThrownValues }

(***************************************************************************)
(* MorphService.applyEdit after the await                                  *)
(***************************************************************************)
\* response.choices[0]?.message?.content, for a body that has a choices array
LastChoiceContent(body) ==
    IF body.choices = <<>> THEN Undefined
    ELSE IF ~body.choices[Len(body.choices)].hasMessage THEN Undefined
    ELSE body.choices[Len(body.choices)].content

FirstChoiceContent(body) ==
    IF body.choices = <<>> THEN Undefined
    ELSE IF ~body.choices[1].hasMessage THEN Undefined
    ELSE body.choices[1].content

\* !mergedCode
Falsy(v) == IsNullish(v) \/ v.text = <<>>

\* Reading .choices[0] of a body that has no choices array.
TypeErrorNoChoices ==
    Thrown(TRUE, "TypeError", <<"Cannot read properties of undefined (reading '0')">>)

\* Lines 87-104: the rest of the try block once the promise has settled.
TryAfterAwait(t) ==
    IF t.state = "rejected" THEN Outcome_Throw(t.value)
    ELSE IF ~t.value.hasChoices THEN Outcome_Throw(TypeErrorNoChoices)
    ELSE IF Falsy(FirstChoiceContent(t.value))
         THEN Outcome_Throw(MorphError(MsgEmpty, <<>>))
         ELSE Outcome_Return(FirstChoiceContent(t.value))

\* Lines 105-113: the catch block.
WrapError(error) ==
    MorphError(MsgFailedPrefix \o (IF error.isError THEN error.message ELSE MsgUnknown),
               IF error.isError THEN <<error>> ELSE <<>>)

CatchBlockWrapsAll(error) == Outcome_Throw(WrapError(error))
CatchBlockDropsCause(error) ==
    IF IsMorphError(error) THEN Outcome_Throw(error)
    ELSE Outcome_Throw(MorphError(WrapError(error).message, <<>>))

CatchBlock(error) ==
    IF IsMorphError(error) THEN Outcome_Throw(error)
    ELSE Outcome_Throw(WrapError(error))

\* What applyEdit gives its caller once the promise has settled as t.
ApplyEditSettled(t) ==
    IF TryAfterAwait(t).kind = "throw"
    THEN CatchBlock(TryAfterAwait(t).value)
    ELSE TryAfterAwait(t)

\* What validateApiKey gives its caller once the promise has settled as t.
ValidateApiKeyChecksBody(t) ==
    Outcome_Return(t.state = "fulfilled" /\ t.value.hasChoices)

ValidateApiKeySettled(t) ==
    IF t.state = "rejected" THEN Outcome_Return(FALSE) ELSE Outcome_Return(TRUE)

(***************************************************************************)
(* Requests                                                                *)
(***************************************************************************)
Request(i, o, e) == [instructions |-> i, originalContent |-> o, codeEdit |-> e]

InstructionsValues ==
    { Undefined, Null, Str(<<>>), Str(<<" ", "\n", "\t">>),
      Str(<<"add logging">>), Str(<<" ", "a", " ">>),
      Str(<<"a", "</instruction>", "\n", "<code>">>) }

OriginalContentValues ==
    { Undefined, Null, Str(<<>>), Str(<<"a">>), Str(<<" ">>),
      Str(<<"</code>", "\n", "<update>", "b">>) }

CodeEditValues ==
    { Undefined, Null, Str(<<>>), Str(<<"\n", " ">>),
      Str(<<"b">>),
      Str(<<"//", " ", EC, "\n", "b">>),
      Str(<<"b", "\n", "#", " ", EC>>),
      Str(<<"<!--", " ", EC, " ", "-->">>),
      Str(<<"//", EC>>),
      Str(<<"<!--", " ", EC>>),
      Str(<<" ", "b", "</update>", " ">>) }

Requests ==
    { Request(i, o, e) :
        i \in InstructionsValues, o \in OriginalContentValues, e \in CodeEditValues }

(***************************************************************************)
(* Actions of the adapter                                                  *)
(***************************************************************************)
Idle(c) == pc[c] = "idle"

\* The fields of the instance after a method has started with argument arg
\* (<<>> or <<request>>): applyEdit and validateApiKey assign neither
\* this.config nor this.client and add no field.
ThisKeepingLastRequest(this, arg) ==
    [config |-> this.config, client |-> this.client, lastRequest |-> arg]

ThisAfterCall(this, arg) == this

\* applyEdit up to the await: validation, formatting, the one create call.
\* A validation error goes through the catch block and ends the call.
ApplyEdit(c, req) ==
    /\ Idle(c)
    /\ op' = [op EXCEPT ![c] = "applyEdit"]
    /\ request' = [request EXCEPT ![c] = <<req>>]
    /\ settled' = [settled EXCEPT ![c] = <<>>]
    /\ IF validateEditRequest(req).thrown # <<>>
       THEN /\ pc' = [pc EXCEPT ![c] = "done"]
            /\ outcome' = [outcome EXCEPT
                             ![c] = <<CatchBlock(validateEditRequest(req).thrown[1])>>]
            /\ warnings' = [warnings EXCEPT ![c] = 0]
            /\ wire' = [wire EXCEPT ![c] = <<>>]
       ELSE /\ pc' = [pc EXCEPT ![c] = "awaiting"]
            /\ outcome' = [outcome EXCEPT ![c] = <<>>]
            /\ warnings' = [warnings EXCEPT
                              ![c] = IF validateEditRequest(req).warn THEN 1 ELSE 0]
            /\ wire' = [wire EXCEPT
                          ![c] = <<Create(service.client,
                                          ApplyEditParams(formatMorphPrompt(req)))>>]
    /\ service' = ThisAfterCall(service, <<req>>)
    /\ UNCHANGED ctlVars

\* The promise settles and applyEdit runs to its end.
ApplyEditResume(c, t) ==
    /\ pc[c] = "awaiting"
    /\ op[c] = "applyEdit"
    /\ settled' = [settled EXCEPT ![c] = <<t>>]
    /\ outcome' = [outcome EXCEPT ![c] = <<ApplyEditSettled(t)>>]
    /\ pc' = [pc EXCEPT ![c] = "done"]
    /\ UNCHANGED <<service, op, request, wire, warnings, ctlVars>>

\* validateApiKey up to the await.
ValidateApiKey(c) ==
    /\ Idle(c)
    /\ op' = [op EXCEPT ![c] = "validateApiKey"]
    /\ request' = [request EXCEPT ![c] = <<>>]
    /\ settled' = [settled EXCEPT ![c] = <<>>]
    /\ outcome' = [outcome EXCEPT ![c] = <<>>]
    /\ warnings' = [warnings EXCEPT ![c] = 0]
    /\ wire' = [wire EXCEPT ![c] = <<Create(service.client, ValidateApiKeyParams)>>]
    /\ pc' = [pc EXCEPT ![c] = "awaiting"]
    /\ service' = ThisAfterCall(service, <<>>)
    /\ UNCHANGED ctlVars

ValidateApiKeyResume(c, t) ==
    /\ pc[c] = "awaiting"
    /\ op[c] = "validateApiKey"
    /\ settled' = [settled EXCEPT ![c] = <<t>>]
    /\ outcome' = [outcome EXCEPT ![c] = <<ValidateApiKeySettled(t)>>]
    /\ pc' = [pc EXCEPT ![c] = "done"]
    /\ UNCHANGED <<service, op, request, wire, warnings, ctlVars>>

\* The call has returned to its caller: its activation record is gone.
Return(c) ==
    /\ pc[c] = "done"
    /\ pc' = [pc EXCEPT ![c] = "idle"]
    /\ op' = [op EXCEPT ![c] = "none"]
    /\ request' = [request EXCEPT ![c] = <<>>]
    /\ wire' = [wire EXCEPT ![c] = <<>>]
    /\ warnings' = [warnings EXCEPT ![c] = 0]
    /\ settled' = [settled EXCEPT ![c] = <<>>]
    /\ outcome' = [outcome EXCEPT ![c] = <<>>]
    /\ UNCHANGED <<service, ctlVars>>

(***************************************************************************)
(* Controller state left alone by the adapter                              *)
(***************************************************************************)
CtlQuiet ==
    /\ cache = <<>>
    /\ taskApi = <<>>
    /\ posted = 0
    /\ upc = <<>>
    /\ ucfg = <<>>

InitCalls(n) ==
    /\ service \in { MorphServiceNew(cfg) : cfg \in ConfigInputs }
    /\ DOMAIN service = {"config", "client"}
    /\ pc = [c \in 1..n |-> "idle"]
    /\ op = [c \in 1..n |-> "none"]
    /\ request = [c \in 1..n |-> <<>>]
    /\ wire = [c \in 1..n |-> <<>>]
    /\ warnings = [c \in 1..n |-> 0]
    /\ settled = [c \in 1..n |-> <<>>]
    /\ outcome = [c \in 1..n |-> <<>>]
    /\ CtlQuiet

\* One caller, every request and every settlement.
Init == InitCalls(1)

Next ==
    \/ \E req \in Requests : ApplyEdit(1, req)
    \/ \E t \in Settlements : ApplyEditResume(1, t)
    \/ ValidateApiKey(1)
    \/ \E t \in Settlements : ValidateApiKeyResume(1, t)
    \/ Return(1)

Spec == Init /\ [][Next]_vars

(***************************************************************************)
(* Vocabulary of the properties                                            *)
(***************************************************************************)
Calls == DOMAIN pc
Req(c) == request[c][1]
Out(c) == outcome[c][1]
Settled(c) == settled[c][1]

InApplyEdit(c) == op[c] = "applyEdit" /\ request[c] # <<>>
DoneCall(c) == pc[c] = "done" /\ outcome[c] # <<>>

\* Absent, empty, or made of whitespace only.
WhitespaceOnly(v) ==
    v.kind # "string" \/ \A i \in 1..Len(v.text) : v.text[i] \in WhiteSpace

Absent(v) == v.kind # "string"

\* The three error kinds, told apart by what MorphError carries.
IsValidationError(e) ==
    /\ e.name = "MorphError"
    /\ e.message \in {MsgInstructions, MsgOriginal, MsgCodeEdit}
    /\ e.cause = <<>>

IsEmptyResponseError(e) ==
    /\ e.name = "MorphError"
    /\ e.message = MsgEmpty

IsRequestFailedError(e) ==
    /\ e.name = "MorphError"
    /\ Len(e.message) > 1
    /\ SubSeq(e.message, 1, 1) = MsgFailedPrefix

\* The request of a call passes the three preconditions.
Acceptable(req) ==
    /\ ~WhitespaceOnly(req.instructions)
    /\ ~Absent(req.originalContent)
    /\ ~WhitespaceOnly(req.codeEdit)

(***************************************************************************)
(* C1: a request with blank instructions, absent originalContent or blank  *)
(* codeEdit makes applyEdit fail with the validation error, and no remote  *)
(* request is issued during the call.                                      *)
(***************************************************************************)
C1_ValidationRejects ==
    \A c \in Calls :
        (InApplyEdit(c) /\ ~Acceptable(Req(c))) =>
            /\ DoneCall(c)
            /\ Out(c).kind = "throw"
            /\ IsValidationError(Out(c).value)
            /\ wire[c] = <<>>
            /\ settled[c] = <<>>

C1_Witness ==
    \E c \in Calls :
        /\ InApplyEdit(c)
        /\ Req(c) = Request(Str(<<"add logging">>), Str(<<>>), Str(<<"\n", " ">>))
        /\ DoneCall(c)
        /\ Out(c) = Outcome_Throw(MorphError(MsgCodeEdit, <<>>))

(***************************************************************************)
(* C2 as stated: whatever value the transport throws, applyEdit fails with *)
(* RequestFailedError whose cause is that value.                           *)
(***************************************************************************)
C2_CauseIsAlwaysOriginal ==
    \A c \in Calls :
        (InApplyEdit(c) /\ DoneCall(c) /\ settled[c] # <<>>
            /\ Settled(c).state = "rejected") =>
            /\ Out(c).kind = "throw"
            /\ IsRequestFailedError(Out(c).value)
            /\ Out(c).value.cause = <<Settled(c).value>>

(***************************************************************************)
(* C2 amended: when the transport throws, applyEdit fails with             *)
(* RequestFailedError; its cause is the thrown value when that is an Error *)
(* instance, and it has no cause and the message "Unknown error" when the  *)
(* thrown value is not an Error instance.                                  *)
(***************************************************************************)
C2_CauseWhenError ==
    \A c \in Calls :
        (InApplyEdit(c) /\ DoneCall(c) /\ settled[c] # <<>>
            /\ Settled(c).state = "rejected") =>
            /\ Out(c).kind = "throw"
            /\ IsRequestFailedError(Out(c).value)
            /\ Settled(c).value.isError =>
                 /\ Out(c).value.cause = <<Settled(c).value>>
                 /\ Out(c).value.message = MsgFailedPrefix \o Settled(c).value.message
            /\ ~Settled(c).value.isError =>
                 /\ Out(c).value.cause = <<>>
                 /\ Out(c).value.message = MsgFailedPrefix \o MsgUnknown

C2_Witness ==
    \E c \in Calls :
        /\ InApplyEdit(c) /\ DoneCall(c)
        /\ settled[c] = <<Rejected(ErrRateLimit)>>
        /\ Out(c).kind = "throw"
        /\ Out(c).value.cause = <<ErrRateLimit>>

(***************************************************************************)
(* C3 as stated: validateApiKey never throws, returns true only when the   *)
(* remote call succeeded, and returns false for every failure mode, a      *)
(* malformed response included.                                            *)
(***************************************************************************)
RemoteCallFailed(t) == t.state = "rejected" \/ ~t.value.hasChoices

C3_FalseOnEveryFailure ==
    \A c \in Calls :
        (op[c] = "validateApiKey" /\ DoneCall(c)) =>
            /\ Out(c).kind = "return"
            /\ Out(c).value = ~RemoteCallFailed(Settled(c))

(***************************************************************************)
(* C3 amended: validateApiKey never throws; it returns false exactly when  *)
(* the remote call raises an error (network, auth, rate limit, a body that *)
(* cannot be parsed) and true whenever the call resolves, whatever the     *)
(* response holds: the response is not inspected.                          *)
(***************************************************************************)
C3_TrueIffResolved ==
    \A c \in Calls :
        (op[c] = "validateApiKey" /\ DoneCall(c)) =>
            /\ Out(c).kind = "return"
            /\ Out(c).value = (Settled(c).state = "fulfilled")

C3_Witness ==
    \E c \in Calls :
        /\ op[c] = "validateApiKey" /\ DoneCall(c)
        /\ settled[c] = <<Fulfilled(MalformedBody)>>
        /\ Out(c) = Outcome_Return(TRUE)

(***************************************************************************)
(* C4: a response whose first choice has no content (no choices, no        *)
(* message, absent or empty content) makes applyEdit fail with             *)
(* EmptyResponseError, which reaches the caller as raised: not wrapped as  *)
(* RequestFailedError, and without a cause.                                *)
(***************************************************************************)
NoFirstContent(body) ==
    \/ body.choices = <<>>
    \/ ~body.choices[1].hasMessage
    \/ body.choices[1].content.kind # "string"
    \/ body.choices[1].content.text = <<>>

C4_EmptyResponseUnwrapped ==
    \A c \in Calls :
        (InApplyEdit(c) /\ DoneCall(c) /\ settled[c] # <<>>
            /\ Settled(c).state = "fulfilled"
            /\ Settled(c).value.hasChoices
            /\ NoFirstContent(Settled(c).value)) =>
            /\ Out(c).kind = "throw"
            /\ IsEmptyResponseError(Out(c).value)
            /\ ~IsRequestFailedError(Out(c).value)
            /\ Out(c).value.cause = <<>>

C4_Witness ==
    \E c \in Calls :
        /\ InApplyEdit(c) /\ DoneCall(c)
        /\ settled[c] =
             <<Fulfilled(Body(TRUE, <<Choice(TRUE, Str(<<>>)), Choice(TRUE, Str(<<"X">>))>>))>>
        /\ Out(c) = Outcome_Throw(MorphError(MsgEmpty, <<>>))

(***************************************************************************)
(* C5: when the first choice of the response has non-empty content X,      *)
(* applyEdit returns exactly X, whatever the other choices hold.           *)
(***************************************************************************)
C5_ReturnsFirstContent ==
    \A c \in Calls :
        (InApplyEdit(c) /\ DoneCall(c) /\ settled[c] # <<>>
            /\ Settled(c).state = "fulfilled"
            /\ Settled(c).value.hasChoices
            /\ ~NoFirstContent(Settled(c).value)) =>
            /\ Acceptable(Req(c))
            /\ Out(c).kind = "return"
            /\ Out(c).value = Settled(c).value.choices[1].content

C5_Witness ==
    \E c \in Calls :
        /\ InApplyEdit(c) /\ DoneCall(c)
        /\ settled[c] =
             <<Fulfilled(Body(TRUE, <<Choice(TRUE, Str(<<" ", "Y", "\n">>)),
                                      Choice(TRUE, Str(<<"X">>))>>))>>
        /\ Out(c) = Outcome_Return(Str(<<" ", "Y", "\n">>))

(***************************************************************************)
(* C6: an applyEdit call whose request passes validation issues exactly    *)
(* one request to the configured endpoint: not streaming, with the fixed   *)
(* model and the formatted prompt as the only message, from a user. After  *)
(* a failure or an empty response there is still only that one request.    *)
(***************************************************************************)
C6_ExactlyOneRequest ==
    \A c \in Calls :
        (InApplyEdit(c) /\ Acceptable(Req(c))) =>
            /\ pc[c] \in {"awaiting", "done"}
            /\ Len(wire[c]) = 1
            /\ wire[c][1].baseURL = service.config.baseUrl
            /\ wire[c][1].apiKey = service.config.apiKey
            /\ wire[c][1].timeout = service.config.timeout
            /\ wire[c][1].params.model = "morph-v3-large"
            /\ wire[c][1].params.stream = FALSE
            /\ wire[c][1].params.max_tokens = <<>>
            /\ Len(wire[c][1].params.messages) = 1
            /\ wire[c][1].params.messages[1].role = "user"
            /\ wire[c][1].params.messages[1].content = formatMorphPrompt(Req(c))

C6_Witness ==
    \E c \in Calls :
        /\ InApplyEdit(c) /\ DoneCall(c)
        /\ settled[c] = <<Rejected(ErrTimeout)>>
        /\ Len(wire[c]) = 1
        /\ wire[c][1].params.stream = FALSE

(***************************************************************************)
(* C7: the prompt sent is "<instruction>" instructions "</instruction>\n"  *)
(* "<code>" originalContent "</code>\n" "<update>" codeEdit "</update>":   *)
(* the three segments in that order, each field verbatim, neither trimmed  *)
(* nor escaped.                                                            *)
(***************************************************************************)
PromptLayout(p, i, o, e) ==
    /\ Len(p) = Len(i) + Len(o) + Len(e) + 8
    /\ p[1] = "<instruction>"
    /\ SubSeq(p, 2, Len(i) + 1) = i
    /\ p[Len(i) + 2] = "</instruction>"
    /\ p[Len(i) + 3] = "\n"
    /\ p[Len(i) + 4] = "<code>"
    /\ SubSeq(p, Len(i) + 5, Len(i) + Len(o) + 4) = o
    /\ p[Len(i) + Len(o) + 5] = "</code>"
    /\ p[Len(i) + Len(o) + 6] = "\n"
    /\ p[Len(i) + Len(o) + 7] = "<update>"
    /\ SubSeq(p, Len(i) + Len(o) + 8, Len(i) + Len(o) + Len(e) + 7) = e
    /\ p[Len(p)] = "</update>"

C7_PromptVerbatim ==
    \A c \in Calls :
        (InApplyEdit(c) /\ wire[c] # <<>>) =>
            PromptLayout(wire[c][1].params.messages[1].content,
                         Req(c).instructions.text,
                         Req(c).originalContent.text,
                         Req(c).codeEdit.text)

C7_Witness ==
    \E c \in Calls :
        /\ InApplyEdit(c)
        /\ Req(c) = Request(Str(<<" ", "a", " ">>),
                            Str(<<"</code>", "\n", "<update>", "b">>),
                            Str(<<" ", "b", "</update>", " ">>))
        /\ wire[c] # <<>>
        /\ wire[c][1].params.messages[1].content =
             <<"<instruction>", " ", "a", " ", "</instruction>", "\n",
               "<code>", "</code>", "\n", "<update>", "b", "</code>", "\n",
               "<update>", " ", "b", "</update>", " ", "</update>">>

(***************************************************************************)
(* C8: the marker check is no gate. A request with non-blank instructions, *)
(* a present originalContent (the empty string included) and a non-blank   *)
(* codeEdit goes on to the remote call with or without a marker; it warns  *)
(* exactly when codeEdit has none of the three markers and originalContent *)
(* is not empty.                                                           *)
(***************************************************************************)
StartsAt(text, i, piece) ==
    /\ i + Len(piece) - 1 <= Len(text)
    /\ \A k \in 1..Len(piece) : text[i + k - 1] = piece[k]

ContainsMarker(text) ==
    \E i \in 1..Len(text) :
        \/ StartsAt(text, i, <<"//", " ", "... existing code ...">>)
        \/ StartsAt(text, i, <<"#", " ", "... existing code ...">>)
        \/ StartsAt(text, i, <<"<!--", " ", "... existing code ...", " ", "-->">>)

C8_MarkerCheckIsNoGate ==
    \A c \in Calls :
        (InApplyEdit(c) /\ Acceptable(Req(c))) =>
            /\ Len(wire[c]) = 1
            /\ pc[c] = "awaiting" \/ settled[c] # <<>>
            /\ (outcome[c] # <<>> /\ Out(c).kind = "throw") =>
                   ~IsValidationError(Out(c).value)
            /\ warnings[c] =
                 IF ~ContainsMarker(Req(c).codeEdit.text)
                    /\ Req(c).originalContent.text # <<>>
                 THEN 1 ELSE 0

C8_Witness ==
    \E c \in Calls :
        /\ InApplyEdit(c)
        /\ Req(c) = Request(Str(<<"add logging">>), Str(<<>>), Str(<<"b">>))
        /\ pc[c] = "awaiting"
        /\ Len(wire[c]) = 1
        /\ warnings[c] = 0

(***************************************************************************)
(* Concurrent calls on one instance                                        *)
(***************************************************************************)
ConcRequests ==
    { Request(Str(<<"add logging">>), Str(<<"a">>), Str(<<"//", " ", EC, "\n", "b">>)),
      Request(Str(<<" ", "a", " ">>), Str(<<"a">>), Str(<<"b">>)),
      Request(Str(<<"a", "</instruction>", "\n", "<code>">>), Str(<<>>),
              Str(<<" ", "b", "</update>", " ">>)),
      Request(Str(<<"add logging">>), Str(<<"a">>), Str(<<"\n", " ">>)) }

ConcSettlements ==
    { Fulfilled(Body(TRUE, <<Choice(TRUE, Str(<<"X">>))>>)),
      Fulfilled(Body(TRUE, <<Choice(TRUE, Str(<<" ", "Y", "\n">>))>>)),
      Fulfilled(Body(TRUE, <<>>)),
      Fulfilled(MalformedBody),
      Rejected(ErrConnection),
      Rejected(NonErrString) }

InitConc == InitCalls(MaxCalls)

NextConc ==
    \/ \E c \in 1..MaxCalls, req \in ConcRequests : ApplyEdit(c, req)
    \/ \E c \in 1..MaxCalls, t \in ConcSettlements : ApplyEditResume(c, t)
    \/ \E c \in 1..MaxCalls : ValidateApiKey(c)
    \/ \E c \in 1..MaxCalls, t \in ConcSettlements : ValidateApiKeyResume(c, t)
    \/ \E c \in 1..MaxCalls : Return(c)

SpecConc == InitConc /\ [][NextConc]_vars

(***************************************************************************)
(* C9: under any interleaving of applyEdit and validateApiKey calls on one *)
(* instance, what a call sends and what it gives back are decided by its   *)
(* own request and the settlement of its own remote request; a step of one *)
(* call leaves every other call's request, prompt and result alone; the    *)
(* instance's configuration never changes; and nothing of a request is     *)
(* kept once the call has returned.                                        *)
(***************************************************************************)
\* What a finished call gave back follows from its own request and settlement.
OwnOutcome(c) ==
    IF op[c] = "validateApiKey"
    THEN Out(c) = Outcome_Return(Settled(c).state = "fulfilled")
    ELSE IF ~Acceptable(Req(c))
    THEN Out(c).kind = "throw" /\ IsValidationError(Out(c).value) /\ settled[c] = <<>>
    ELSE IF Settled(c).state = "rejected"
    THEN /\ Out(c).kind = "throw"
         /\ IsRequestFailedError(Out(c).value)
         /\ Out(c).value.cause =
              IF Settled(c).value.isError THEN <<Settled(c).value>> ELSE <<>>
    ELSE IF ~Settled(c).value.hasChoices
    THEN /\ Out(c).kind = "throw"
         /\ IsRequestFailedError(Out(c).value)
         /\ Out(c).value.cause # <<>>
         /\ Out(c).value.cause[1].name = "TypeError"
    ELSE IF NoFirstContent(Settled(c).value)
    THEN Out(c) = Outcome_Throw(MorphError(MsgEmpty, <<>>))
    ELSE Out(c) = Outcome_Return(Settled(c).value.choices[1].content)

\* What a call has sent follows from its own request and the configuration.
OwnWire(c) ==
    IF op[c] = "validateApiKey"
    THEN /\ Len(wire[c]) = 1
         /\ wire[c][1].params.messages[1].content = TestPrompt
    ELSE IF ~Acceptable(Req(c))
    THEN wire[c] = <<>>
    ELSE /\ Len(wire[c]) = 1
         /\ PromptLayout(wire[c][1].params.messages[1].content,
                         Req(c).instructions.text,
                         Req(c).originalContent.text,
                         Req(c).codeEdit.text)
         /\ wire[c][1].baseURL = service.config.baseUrl

NothingKept(c) ==
    /\ op[c] = "none"
    /\ request[c] = <<>>
    /\ wire[c] = <<>>
    /\ settled[c] = <<>>
    /\ outcome[c] = <<>>

CallsIndependentInv ==
    /\ DOMAIN service = {"config", "client"}
    /\ \A c \in Calls :
        /\ pc[c] = "idle" => NothingKept(c)
        /\ pc[c] # "idle" => OwnWire(c)
        /\ DoneCall(c) => OwnOutcome(c)

\* A step in which call c does not move leaves everything of call c alone.
OthersUntouched ==
    \A c \in Calls :
        pc'[c] = pc[c] =>
            /\ op'[c] = op[c]
            /\ request'[c] = request[c]
            /\ wire'[c] = wire[c]
            /\ warnings'[c] = warnings[c]
            /\ settled'[c] = settled[c]
            /\ outcome'[c] = outcome[c]

C9_CallsAreIndependent ==
    /\ []CallsIndependentInv
    /\ [][service' = service /\ OthersUntouched]_vars

\* Two calls overlap: the first-started call is still suspended while the
\* second has finished with another request, and each holds its own prompt.
C9_Witness ==
    /\ MaxCalls >= 2
    /\ InApplyEdit(1) /\ InApplyEdit(2)
    /\ pc[1] = "awaiting" /\ DoneCall(2)
    /\ Req(1) # Req(2)
    /\ Acceptable(Req(1)) /\ Acceptable(Req(2))
    /\ wire[1] # wire[2]
    /\ Out(2) = Outcome_Return(Str(<<"X">>))

(***************************************************************************)
(* updateApiConfigurationProto                                             *)
(***************************************************************************)
Modes == {"plan", "act"}
TaskUlid == "01TASK"

\* Proto ApiConfiguration messages a request can carry.
ProtoConfigs ==
    { [planModeApiProvider |-> "ANTHROPIC", morphApiKey |-> ""],
      [planModeApiProvider |-> "OPENROUTER", morphApiKey |-> "sk-morph-1"],
      [planModeApiProvider |-> "ANTHROPIC", morphApiKey |-> "sk-morph-2"] }

\* request.apiConfiguration: <<>> when the field is not set.
UpdateRequests == { <<>> } \cup { <<p>> : p \in ProtoConfigs }

\* convertProtoToApiConfiguration: enum names become provider ids, an empty
\* proto string stays an empty string.
convertProtoToApiConfiguration(p) ==
    [planModeApiProvider |->
        IF p.planModeApiProvider = "ANTHROPIC" THEN "anthropic" ELSE "openrouter",
     morphApiKey |-> p.morphApiKey]

\* buildApiHandler({ ...appApiConfiguration, ulid }, currentMode)
buildApiHandler(cfg, ulid, mode) ==
    [planModeApiProvider |-> cfg.planModeApiProvider,
     morphApiKey |-> cfg.morphApiKey,
     ulid |-> ulid,
     mode |-> mode]

\* The configuration a handler was built from.
ConfigOf(handler) ==
    [planModeApiProvider |-> handler.planModeApiProvider,
     morphApiKey |-> handler.morphApiKey]

HasTask == taskApi # <<>>

\* Lines 17-43: up to the first await. Without apiConfiguration the call
\* throws; otherwise the converted configuration is stored, and the call
\* suspends at getCurrentMode (with a task) or at postStateToWebview.
UpdateApiConfiguration(u, r) ==
    /\ upc[u] = "idle"
    /\ IF r = <<>>
       THEN /\ upc' = [upc EXCEPT ![u] = "failed"]
            /\ UNCHANGED <<cache, taskApi, posted, ucfg>>
       ELSE /\ cache' = <<convertProtoToApiConfiguration(r[1])>>
            /\ ucfg' = [ucfg EXCEPT ![u] = <<convertProtoToApiConfiguration(r[1])>>]
            /\ IF HasTask
               THEN /\ upc' = [upc EXCEPT ![u] = "awaitMode"]
                    /\ UNCHANGED <<taskApi, posted>>
               ELSE /\ upc' = [upc EXCEPT ![u] = "awaitPost"]
                    /\ posted' = posted + 1
                    /\ UNCHANGED taskApi
    /\ UNCHANGED morphVars

\* Lines 43-48: getCurrentMode has resolved with mode m; the task's handler
\* is rebuilt from this call's configuration and the state is posted.
UpdateModeResolved(u, m) ==
    /\ upc[u] = "awaitMode"
    /\ taskApi' = <<buildApiHandler(ucfg[u][1], TaskUlid, m)>>
    /\ posted' = posted + 1
    /\ upc' = [upc EXCEPT ![u] = "awaitPost"]
    /\ UNCHANGED <<cache, ucfg, morphVars>>

\* Lines 48-50: postStateToWebview has resolved; the call returns Empty.
UpdatePosted(u) ==
    /\ upc[u] = "awaitPost"
    /\ upc' = [upc EXCEPT ![u] = "done"]
    /\ UNCHANGED <<cache, taskApi, posted, ucfg, morphVars>>

MorphQuiet ==
    /\ service = MorphServiceNew(CHOOSE cfg \in ConfigInputs : cfg.timeout = <<>>)
    /\ pc = <<>>
    /\ op = <<>>
    /\ request = <<>>
    /\ wire = <<>>
    /\ warnings = <<>>
    /\ settled = <<>>
    /\ outcome = <<>>

\* The controller before the calls: a stored configuration and, when a task
\* is active, a handler built from it.
InitCtl ==
    /\ MorphQuiet
    /\ \E p \in ProtoConfigs, m \in Modes, hasTask \in BOOLEAN :
        /\ cache = <<convertProtoToApiConfiguration(p)>>
        /\ taskApi = IF hasTask
                     THEN <<buildApiHandler(convertProtoToApiConfiguration(p), TaskUlid, m)>>
                     ELSE <<>>
    /\ posted = 0
    /\ upc = [u \in 1..MaxUpdates |-> "idle"]
    /\ ucfg = [u \in 1..MaxUpdates |-> <<>>]

NextCtl ==
    \/ \E u \in 1..MaxUpdates, r \in UpdateRequests : UpdateApiConfiguration(u, r)
    \/ \E u \in 1..MaxUpdates, m \in Modes : UpdateModeResolved(u, m)
    \/ \E u \in 1..MaxUpdates : UpdatePosted(u)

SpecCtl == InitCtl /\ [][NextCtl]_vars

(***************************************************************************)
(* C10: once every updateApiConfigurationProto call has completed while a  *)
(* task is active, the task's handler was built from the configuration     *)
(* that the cache holds; and a call without apiConfiguration has changed   *)
(* neither the cache nor the handler, and has posted nothing.              *)
(***************************************************************************)
NoUpdateInProgress == \A u \in DOMAIN upc : upc[u] \in {"idle", "done", "failed"}

C10_TaskUsesStoredConfig ==
    (NoUpdateInProgress /\ HasTask) => ConfigOf(taskApi[1]) = cache[1]

====
